---- MODULE Spec2Model ----
(***************************************************************************)
(* EDDN-RealTime: the WebSocket relay (eddnws/websocketrelay.py) fed by    *)
(* the ZMQ subscriber (eddnws/eddnreceiver.py), as a state machine of the  *)
(* asyncio event loop.  One action is one uninterrupted run of a task or   *)
(* callback between two suspension points (await / yield to the loop).     *)
(***************************************************************************)
EXTENDS Integers, Sequences, FiniteSets, TLC

\* ----------------------------------------------------------------- bounds
NConn == 2      \* client connections that ever arrive
MaxMsgs == 2    \* payloads the upstream endpoint ever publishes

None == 0
Conns == 1..NConn
Tasks == 1..NConn           \* every _relay_start needs a newly added client (or server start)
BufSizes == {0, 1, 2}       \* write-buffer sizes: below, at and above a limit of 1

\* Option values the model is run with (Options dataclasses of both classes).
CloseDelays == {-1, 0}          \* < 0: eager, >= 0: on demand
ConnectionLimits == {0, 1}      \* 0: unlimited
BufferLimits == {0, 1}          \* 0: unlimited
CheckIntervals == {0, 1}        \* 0: inline check only
OptionSets ==
    {o \in [close_delay : CloseDelays, connection_limit : ConnectionLimits,
            client_buffer_limit : BufferLimits, client_check_interval : CheckIntervals,
            ignore_decode_errors : BOOLEAN] :
        \* without a buffer limit the check interval changes nothing
        o.client_buffer_limit = 0 => o.client_check_interval = 0}

VARIABLES
    options,                \* WebsocketRelay.Options + EDDNReceiver.Options
    stop,                   \* self.stop: "none" | "pending" | the result string
    servePc,                \* position of serve(): "init" | "waiting" | "closing" | "returned"
    _iter,                  \* self._iter: id of the iterator object, or None
    _relay_task,            \* self._relay_task: task id, or None
    _monitor_task,          \* self._monitor_task: task id, or None
    _relay_close_handler,   \* self._relay_close_handler: timer id, or None
    _ws_conns,              \* self._ws_conns
    _background_tasks,      \* open connections with a one-shot close(1008) task still to run
    timers,                 \* timer handles scheduled in the loop and not cancelled
    tasks,                  \* every relay task ever created: its coroutine position
    mons,                   \* every monitor task ever created
    iterCalls,              \* number of calls of iter_factory
    cst,                    \* each connection: protocol / handler position
    sent,                   \* per connection, the envelopes enqueued to its transport
    upSeq,                  \* number of payloads the subscriber sockets have received
    dec,                    \* one call of EDDNReceiver._decode_msg: arguments and result
    _zmq_sub,               \* EDDNWebsocketServer._zmq_sub (eddnws.py): socket id, or None
    self_sighup,            \* eddnws.py: os.kill(os.getpid(), SIGHUP) sent, handler not yet run
    callback_exc            \* exception a loop callback raised (the loop logs it), or "none"

vars == <<options, stop, servePc, _iter, _relay_task, _monitor_task, _relay_close_handler,
          _ws_conns, _background_tasks, timers, tasks, mons, iterCalls, cst, sent, upSeq,
          dec, _zmq_sub, self_sighup, callback_exc>>

relayVars == <<_iter, _relay_task, _monitor_task, _relay_close_handler, timers, tasks, mons,
               iterCalls>>
connVars == <<_ws_conns, cst>>
ioVars == <<sent, upSeq, _background_tasks>>

\* JSON text and JSON data, as trees.  A node is a scalar (value v), an object (m: its
\* members, in the order written, each a key k and a node d) or an array (m: its
\* elements, k unused); sp is how the node is spelled in the text: "canon" as orjson
\* writes it, "short" / "long" for an equivalent spelling of other length (1E5 for
\* 100000.0, an escaped character or whitespace).  "bad" is text that is not JSON,
\* "empty" is no text at all.
NoNode == [t |-> "none", v |-> 0, sp |-> "canon", m |-> <<>>]
NoResult == [err |-> "pending", out |-> NoNode]
NoPayload == [kind |-> "empty", text |-> NoNode, have |-> 0, eof |-> FALSE, extra |-> FALSE]
NoDecode == [pc |-> "off", msg |-> NoPayload, size_limit |-> 0, res |-> NoResult,
             first |-> NoResult]

NoTask == [pc |-> "none", cancel |-> FALSE, it |-> None, sock |-> "none", cur |-> None]

Init ==
    /\ options \in OptionSets
    /\ stop = "none"
    /\ servePc = "init"
    /\ _iter = None
    /\ _relay_task = None
    /\ _monitor_task = None
    /\ _relay_close_handler = None
    /\ _ws_conns = {}
    /\ _background_tasks = {}
    /\ timers = {}
    /\ tasks = [t \in Tasks |-> NoTask]
    /\ mons = [t \in Tasks |-> "none"]
    /\ iterCalls = 0
    /\ cst = [c \in Conns |-> "idle"]
    /\ sent = [c \in Conns |-> <<>>]
    /\ upSeq = 0
    /\ dec = NoDecode
    /\ _zmq_sub = None
    /\ self_sighup = FALSE
    /\ callback_exc = "none"

\* ------------------------------------------------- lifecycle controller
\* The fields _relay_start/_relay_stop/_relay_close/_relay_close_cancel read
\* and write, as one record, so that a handler can apply several in a row.
Relay ==
    [iter |-> _iter, relay_task |-> _relay_task, monitor_task |-> _monitor_task,
     handler |-> _relay_close_handler, timers |-> timers, tasks |-> tasks, mons |-> mons,
     calls |-> iterCalls]

SetRelay(R) ==
    /\ _iter' = R.iter
    /\ _relay_task' = R.relay_task
    /\ _monitor_task' = R.monitor_task
    /\ _relay_close_handler' = R.handler
    /\ timers' = R.timers
    /\ tasks' = R.tasks
    /\ mons' = R.mons
    /\ iterCalls' = R.calls

\* asyncio.Task.done()
TaskDone(R, t) == R.tasks[t].pc = "done"
MonDone(R, t) == R.mons[t] = "done"

MonitorConfigured == options.client_check_interval > 0 /\ options.client_buffer_limit > 0

\* asyncio.Task.cancel(): a finished task ignores it; any other task gets
\* CancelledError thrown at its current suspension point in its next step.
CancelTask(T, t) == IF T[t].pc = "done" THEN T ELSE [T EXCEPT ![t].cancel = TRUE]
CancelMon(M, t) == IF M[t] = "done" THEN M ELSE [M EXCEPT ![t] = "cancelled"]

\* (mutant) no sanity check: a start always starts
_relay_start_NoCheck(R) ==
    LET n == R.calls + 1 IN
    [R EXCEPT !.calls = n,
              !.iter = n,
              !.relay_task = n,
              !.tasks[n] = [NoTask EXCEPT !.pc = "created"],
              !.monitor_task = IF MonitorConfigured THEN n ELSE @,
              !.mons[n] = IF MonitorConfigured THEN "alive" ELSE @]

_relay_start(R) ==
    IF \/ (R.relay_task # None /\ ~TaskDone(R, R.relay_task))
       \/ (R.monitor_task # None /\ ~MonDone(R, R.monitor_task))
    THEN R      \* warnings.warn("Relay tasks not done"); return
    ELSE LET n == R.calls + 1 IN
         [R EXCEPT !.calls = n,
                   !.iter = n,
                   !.relay_task = n,
                   !.tasks[n] = [NoTask EXCEPT !.pc = "created"],
                   !.monitor_task = IF MonitorConfigured THEN n ELSE @,
                   !.mons[n] = IF MonitorConfigured THEN "alive" ELSE @]

\* (mutant) the buffer monitor is left running
_relay_stop_KeepMonitor(R) ==
    [R EXCEPT !.timers = IF R.handler # None THEN @ \ {R.handler} ELSE @,
              !.handler = None,
              !.tasks = IF R.relay_task # None THEN CancelTask(@, R.relay_task) ELSE @,
              !.relay_task = None,
              !.iter = None]

\* (mutant) a pending teardown timer is left armed
_relay_stop_KeepTimer(R) ==
    [R EXCEPT !.tasks = IF R.relay_task # None THEN CancelTask(@, R.relay_task) ELSE @,
              !.relay_task = None,
              !.mons = IF R.monitor_task # None THEN CancelMon(@, R.monitor_task) ELSE @,
              !.monitor_task = None,
              !.iter = None]

_relay_stop(R) ==
    [R EXCEPT !.timers = IF R.handler # None THEN @ \ {R.handler} ELSE @,
              !.handler = None,
              !.tasks = IF R.relay_task # None THEN CancelTask(@, R.relay_task) ELSE @,
              !.relay_task = None,
              !.mons = IF R.monitor_task # None THEN CancelMon(@, R.monitor_task) ELSE @,
              !.monitor_task = None,
              !.iter = None]

\* loop.call_later: a fresh handle
NewTimer(S) == CHOOSE i \in 1..(Cardinality(S) + 1) : i \notin S

_relay_close(R) ==
    LET live == IF R.handler # None THEN R.timers \ {R.handler} ELSE R.timers
        h == NewTimer(live)
    IN [R EXCEPT !.timers = live \cup {h}, !.handler = h]

\* (mutant) a pending teardown is left armed
_relay_close_cancel_Keep(R) == R

_relay_close_cancel(R) ==
    IF R.handler # None
    THEN [R EXCEPT !.timers = @ \ {R.handler}, !.handler = None]
    ELSE R

\* The callback call_later scheduled: _relay_stop, run by the loop.
TimerFire(h) ==
    /\ h \in timers
    /\ SetRelay(_relay_stop([Relay EXCEPT !.timers = @ \ {h}]))
    /\ UNCHANGED <<callback_exc, self_sighup, _zmq_sub, dec, options, stop, servePc, connVars, ioVars>>

\* ------------------------------------------------------------ front door
\* The pre-upgrade check of _process_request and the secondary check of _ws_handler.
RequestLimitReached ==
    options.connection_limit > 0 /\ Cardinality(_ws_conns) >= options.connection_limit
\* (mutant) the handler trusts the pre-upgrade check
HandlerLimitReached_Off == FALSE

\* (mutant) a set that is exactly full still admits one more
HandlerLimitReached_OverOnly ==
    options.connection_limit > 0 /\ Cardinality(_ws_conns) > options.connection_limit

HandlerLimitReached ==
    options.connection_limit > 0 /\ Cardinality(_ws_conns) >= options.connection_limit

\* The requests _process_request tells apart: "ping" has the path of a configured
\* ping_path (with or without Upgrade header), "upgrade" is a WebSocket upgrade request
\* to any other path, "plain" is any other request without "Upgrade: websocket".
Requests == {"ping", "upgrade", "plain"}

\* (mutant) the health check is looked at after the connection limit
_process_request_LimitFirst(req) ==
    IF req \in {"ping", "upgrade"} /\ RequestLimitReached THEN "refused"
    ELSE IF req = "ping" THEN "pinged"
    ELSE "none"

\* (mutant) the pre-upgrade limit check lets a full set pass
_process_request_OverOnly(req) ==
    IF req = "ping" THEN "pinged"
    ELSE IF req = "upgrade" /\ options.connection_limit > 0
                /\ Cardinality(_ws_conns) > options.connection_limit THEN "refused"
    ELSE "none"

\* _process_request: the response it returns -- "pinged": respond(200, "OK\n");
\* "refused": respond(503, "Connection limit reached\n"); "none": None, the handshake
\* goes on.
_process_request(req) ==
    IF req = "ping" THEN "pinged"
    ELSE IF req = "upgrade" /\ RequestLimitReached THEN "refused"
    ELSE "none"

\* A request arrives on a new connection while the listener is serving.  A response
\* from _process_request ends the connection without upgrade; with None the library
\* completes the handshake of an upgrade request and fails that of any other request.
ProcessRequest(c, req) ==
    /\ servePc = "waiting"
    /\ cst[c] = "idle"
    /\ \A d \in Conns : d < c => cst[d] # "idle"     \* connections are numbered as they arrive
    /\ LET resp == _process_request(req) IN
        cst' = [cst EXCEPT ![c] = IF resp # "none" THEN resp
                                  ELSE IF req = "upgrade" THEN "upgrading" ELSE "failed"]
    /\ UNCHANGED <<callback_exc, self_sighup, _zmq_sub, dec, options, stop, servePc, relayVars, _ws_conns, ioVars>>

\* What the handler does to the lifecycle right after adding the connection.
OnClientAdded(R) ==
    IF options.close_delay >= 0
    THEN LET R1 == _relay_close_cancel(R) IN
         IF R1.relay_task = None \/ TaskDone(R1, R1.relay_task) THEN _relay_start(R1) ELSE R1
    ELSE R

\* (mutant) the last client leaves and no teardown is scheduled
OnClientRemoved_NoTimer(R, conns) == R

\* (mutant) the teardown is scheduled whatever close_delay says
OnClientRemoved_AnyMode(R, conns) ==
    IF conns = {} /\ R.relay_task # None THEN _relay_close(R) ELSE R

\* What the handler's finally block does after discarding the connection.
OnClientRemoved(R, conns) ==
    IF conns = {} /\ R.relay_task # None /\ options.close_delay >= 0
    THEN _relay_close(R)
    ELSE R

\* _ws_handler up to its first await: the secondary limit check, then either
\* "await websocket.close(1013)" or add + lifecycle + "await wait_closed()".
HandlerStart(c) ==
    /\ servePc \in {"waiting", "closing"}
    /\ cst[c] = "upgrading"
    /\ IF HandlerLimitReached
       THEN /\ cst' = [cst EXCEPT ![c] = "rejecting"]
            /\ UNCHANGED <<_ws_conns, relayVars>>
       ELSE /\ _ws_conns' = _ws_conns \cup {c}
            /\ cst' = [cst EXCEPT ![c] = "open"]
            /\ SetRelay(OnClientAdded(Relay))
    /\ UNCHANGED <<callback_exc, self_sighup, _zmq_sub, dec, options, stop, servePc, ioVars>>

\* close(1013) completed: the handler returns.
HandlerRejected(c) ==
    /\ cst[c] = "rejecting"
    /\ cst' = [cst EXCEPT ![c] = "rejected"]
    /\ UNCHANGED <<callback_exc, self_sighup, _zmq_sub, dec, options, stop, servePc, relayVars, _ws_conns, ioVars>>

\* The connection leaves OPEN: the peer closed it or the transport was lost.  A close
\* task still pending for it has nothing left to do and is dropped from the model.
PeerClose(c) ==
    /\ cst[c] = "open"
    /\ cst' = [cst EXCEPT ![c] = "closed"]
    /\ _background_tasks' = _background_tasks \ {c}
    /\ UNCHANGED <<callback_exc, self_sighup, _zmq_sub, dec, options, stop, servePc, relayVars, _ws_conns, sent, upSeq>>

\* A one-shot task made by _create_task runs websocket.close(1008, ...).
CloseTaskRun(c) ==
    /\ c \in _background_tasks
    /\ _background_tasks' = _background_tasks \ {c}
    /\ cst' = [cst EXCEPT ![c] = "closed"]
    /\ UNCHANGED <<callback_exc, self_sighup, _zmq_sub, dec, options, stop, servePc, relayVars, _ws_conns, sent, upSeq>>

\* wait_closed() returned (or raised): the finally block of _ws_handler.
HandlerFinish(c) ==
    /\ cst[c] = "closed"
    /\ c \in _ws_conns
    /\ _ws_conns' = _ws_conns \ {c}
    /\ cst' = [cst EXCEPT ![c] = "gone"]
    /\ SetRelay(OnClientRemoved(Relay, _ws_conns \ {c}))
    /\ sent' = [sent EXCEPT ![c] = <<>>]       \* the transport and its queue are gone
    /\ UNCHANGED <<callback_exc, self_sighup, _zmq_sub, dec, options, stop, servePc, upSeq, _background_tasks>>

\* (mutant) cancellation leaves the handler without running its finally block
HandlerCancelled_NoFinally(c) ==
    /\ servePc = "closing"
    /\ cst[c] = "open"
    /\ c \in _ws_conns
    /\ cst' = [cst EXCEPT ![c] = "gone"]
    /\ sent' = [sent EXCEPT ![c] = <<>>]
    /\ _background_tasks' = _background_tasks \ {c}
    /\ UNCHANGED <<callback_exc, self_sighup, _zmq_sub, dec, options, stop, servePc, relayVars, _ws_conns, upSeq>>

\* The handler task is cancelled while it awaits wait_closed() (the loop cancels what is
\* still running at shutdown): CancelledError passes "except Exception", the finally
\* block runs, the handler ends and the library drops the connection.
HandlerCancelled(c) ==
    /\ servePc = "closing"
    /\ cst[c] = "open"
    /\ c \in _ws_conns
    /\ _ws_conns' = _ws_conns \ {c}
    /\ cst' = [cst EXCEPT ![c] = "gone"]
    /\ SetRelay(OnClientRemoved(Relay, _ws_conns \ {c}))
    /\ sent' = [sent EXCEPT ![c] = <<>>]
    /\ _background_tasks' = _background_tasks \ {c}
    /\ UNCHANGED <<callback_exc, self_sighup, _zmq_sub, dec, options, stop, servePc, upSeq>>

\* ----------------------------------------------------------------- serve
\* serve() up to "await self.stop": the listener is open, eager mode starts the relay.
ServeStart ==
    /\ servePc = "init"
    /\ servePc' = "waiting"
    /\ stop' = "pending"
    /\ SetRelay(IF options.close_delay < 0 THEN _relay_start(Relay) ELSE Relay)
    /\ UNCHANGED <<callback_exc, self_sighup, _zmq_sub, dec, options, connVars, ioVars>>

\* The caller's stop future is resolved from outside (a termination signal).
ExternalStop ==
    /\ servePc = "waiting"
    /\ stop = "pending"
    /\ stop' = "signal"
    /\ UNCHANGED <<callback_exc, self_sighup, _zmq_sub, dec, options, servePc, relayVars, connVars, ioVars>>

\* "await self.stop" returned: _relay_stop(), then the server context exits.
ServeStop ==
    /\ servePc = "waiting"
    /\ stop \notin {"none", "pending"}
    /\ servePc' = "closing"
    /\ SetRelay(_relay_stop(Relay))
    /\ UNCHANGED <<callback_exc, self_sighup, _zmq_sub, dec, options, stop, connVars, ioVars>>

\* The closing listener terminates an open client connection.
ServerClose(c) ==
    /\ servePc = "closing"
    /\ cst[c] = "open"
    /\ cst' = [cst EXCEPT ![c] = "closed"]
    /\ _background_tasks' = _background_tasks \ {c}
    /\ UNCHANGED <<callback_exc, self_sighup, _zmq_sub, dec, options, stop, servePc, relayVars, _ws_conns, sent, upSeq>>

\* Every connection handler has finished: serve() returns.
ServeReturn ==
    /\ servePc = "closing"
    /\ \A c \in Conns : cst[c] \in {"idle", "pinged", "refused", "failed", "rejected", "gone"}
    /\ servePc' = "returned"
    /\ UNCHANGED <<callback_exc, self_sighup, _zmq_sub, dec, options, stop, relayVars, connVars, ioVars>>

\* ------------------------------------------------------------ relay task
\* (mutant) the task ends without touching the stop future
RelayFinally_Silent == stop

\* The finally block of _relay_messages, then the task is finished.
RelayFinally == IF _relay_task # None /\ stop = "pending" THEN "Iterator EOF" ELSE stop

\* The task leaves _relay_messages with its generator's socket in state sk.
TaskExit(t, sk) ==
    /\ tasks' = [tasks EXCEPT ![t].pc = "done", ![t].cancel = FALSE, ![t].sock = sk,
                              ![t].cur = None]
    /\ stop' = RelayFinally

\* First step: the assertions, __aiter__ opens and connects the socket, await recv().
TaskStart(t) ==
    /\ tasks[t].pc = "created"
    /\ ~tasks[t].cancel
    /\ IF stop = "none" \/ _iter = None
       THEN tasks' = [tasks EXCEPT ![t].pc = "done"]       \* AssertionError, before the try
       ELSE tasks' = [tasks EXCEPT ![t].pc = "recv", ![t].it = _iter, ![t].sock = "open"]
    /\ UNCHANGED <<callback_exc, self_sighup, _zmq_sub, dec, options, stop, servePc, _iter, _relay_task, _monitor_task,
                   _relay_close_handler, timers, mons, iterCalls, connVars, ioVars>>

\* (mutant) cancellation never reaches the generator's finally
TaskCancelled_NoClose(t) ==
    /\ tasks[t].pc \in {"created", "recv", "decode", "sleep"}
    /\ tasks[t].cancel
    /\ tasks' = [tasks EXCEPT ![t].pc = "done", ![t].cancel = FALSE, ![t].cur = None]
    /\ stop' = IF tasks[t].pc = "created" THEN stop ELSE RelayFinally
    /\ UNCHANGED <<callback_exc, self_sighup, _zmq_sub, dec, options, servePc, _iter, _relay_task, _monitor_task,
                   _relay_close_handler, timers, mons, iterCalls, connVars, ioVars>>

\* CancelledError is thrown into the task where it is suspended.  A task that never ran
\* ends without running its body; inside the generator (recv, decode) the generator's
\* finally closes the socket; at sleep(0) the generator stays suspended at its yield.
TaskCancelled(t) ==
    /\ tasks[t].pc \in {"created", "recv", "decode", "sleep"}
    /\ tasks[t].cancel
    /\ IF tasks[t].pc = "created"
       THEN /\ tasks' = [tasks EXCEPT ![t].pc = "done", ![t].cancel = FALSE]
            /\ stop' = stop
       ELSE TaskExit(t, IF tasks[t].pc = "sleep" THEN "open" ELSE "closed")
    /\ UNCHANGED <<callback_exc, self_sighup, _zmq_sub, dec, options, servePc, _iter, _relay_task, _monitor_task,
                   _relay_close_handler, timers, mons, iterCalls, connVars, ioVars>>

\* The finalizer of an abandoned generator (aclose) runs its finally: socket.close(linger=0).
GeneratorFinalize(t) ==
    /\ tasks[t].pc = "done"
    /\ tasks[t].sock = "open"
    /\ tasks' = [tasks EXCEPT ![t].sock = "closed"]
    /\ UNCHANGED <<callback_exc, self_sighup, _zmq_sub, dec, options, stop, servePc, _iter, _relay_task, _monitor_task,
                   _relay_close_handler, timers, mons, iterCalls, connVars, ioVars>>

\* socket.recv() returns the next payload (ok: whether it will decode); decoding is
\* handed to the executor.
Recv(t, ok) ==
    /\ tasks[t].pc = "recv"
    /\ ~tasks[t].cancel
    /\ upSeq < MaxMsgs
    /\ upSeq' = upSeq + 1
    /\ tasks' = [tasks EXCEPT ![t].pc = "decode", ![t].cur = [seq |-> upSeq + 1, ok |-> ok]]
    /\ UNCHANGED <<callback_exc, self_sighup, _zmq_sub, dec, options, stop, servePc, _iter, _relay_task, _monitor_task,
                   _relay_close_handler, timers, mons, iterCalls, connVars, sent,
                   _background_tasks>>

\* (mutant) a transport error is treated like a decode error
RecvError_Skip(t) ==
    /\ tasks[t].pc = "recv"
    /\ ~tasks[t].cancel
    /\ IF options.ignore_decode_errors
       THEN /\ tasks' = [tasks EXCEPT ![t].pc = "recv", ![t].cur = None]
            /\ stop' = stop
       ELSE TaskExit(t, "closed")
    /\ UNCHANGED <<callback_exc, self_sighup, _zmq_sub, dec, options, servePc, _iter, _relay_task, _monitor_task,
                   _relay_close_handler, timers, mons, iterCalls, connVars, ioVars>>

\* socket.recv() raises zmq.ZMQError: re-raised whatever ignore_decode_errors says.
RecvError(t) ==
    /\ tasks[t].pc = "recv"
    /\ ~tasks[t].cancel
    /\ TaskExit(t, "closed")
    /\ UNCHANGED <<callback_exc, self_sighup, _zmq_sub, dec, options, servePc, _iter, _relay_task, _monitor_task,
                   _relay_close_handler, timers, mons, iterCalls, connVars, ioVars>>

\* _broadcast: who is skipped, who is evicted, who is sent the message.
\* bufs: what each transport's get_write_buffer_size() returns when asked.
IsOpen(c) == cst[c] = "open"
InlineLimit == IF options.client_check_interval <= 0 THEN options.client_buffer_limit ELSE 0
\* (mutant) a buffer exactly at the limit is let through
InlineEvicted_OverOnly(c, bufs) == InlineLimit > 0 /\ InlineLimit < bufs[c]

InlineEvicted(c, bufs) == InlineLimit > 0 /\ InlineLimit <= bufs[c]
BroadcastEvicts(bufs) == {c \in _ws_conns : IsOpen(c) /\ InlineEvicted(c, bufs)}
\* (mutant) the protocol state is not looked at
BroadcastTargets_All(bufs) == {c \in _ws_conns : ~InlineEvicted(c, bufs)}

BroadcastTargets(bufs) == {c \in _ws_conns : IsOpen(c) /\ ~InlineEvicted(c, bufs)}

\* (mutant) the frame is passed to the transport twice
_broadcast_Twice(m, bufs, errs) ==
    /\ sent' = [c \in Conns |->
                  IF c \in BroadcastTargets(bufs) \ errs
                  THEN Append(Append(sent[c], m), m) ELSE sent[c]]
    /\ _background_tasks' = _background_tasks \cup BroadcastEvicts(bufs)

\* (mutant) the first send that raises ends the loop over the connections
_broadcast_Abort(m, bufs, errs) ==
    /\ sent' = [c \in Conns |->
                  IF c \in BroadcastTargets(bufs) \ errs /\ \A e \in errs : c < e
                  THEN Append(sent[c], m) ELSE sent[c]]
    /\ _background_tasks' =
            _background_tasks \cup {c \in BroadcastEvicts(bufs) : \A e \in errs : c < e}

\* errs: the connections whose send_method / send_data raises (logged, nothing enqueued).
_broadcast(m, bufs, errs) ==
    /\ sent' = [c \in Conns |->
                  IF c \in BroadcastTargets(bufs) \ errs THEN Append(sent[c], m) ELSE sent[c]]
    /\ _background_tasks' = _background_tasks \cup BroadcastEvicts(bufs)

\* (mutant) no await between two envelopes: with a further payload waiting, the task
\* receives, decodes and broadcasts it in the same run
DecodeDone_Burst(t, bufs, errs) ==
    /\ tasks[t].pc = "decode"
    /\ ~tasks[t].cancel
    /\ tasks[t].cur.ok
    /\ errs \subseteq BroadcastTargets(bufs)
    /\ LET more == upSeq < MaxMsgs
           m == tasks[t].cur.seq
       IN /\ sent' = [c \in Conns |->
                        IF c \in BroadcastTargets(bufs) \ errs
                        THEN (IF more THEN Append(Append(sent[c], m), upSeq + 1)
                              ELSE Append(sent[c], m))
                        ELSE sent[c]]
          /\ upSeq' = IF more THEN upSeq + 1 ELSE upSeq
    /\ _background_tasks' = _background_tasks \cup BroadcastEvicts(bufs)
    /\ tasks' = [tasks EXCEPT ![t].pc = "sleep", ![t].cur = None]
    /\ UNCHANGED <<callback_exc, self_sighup, _zmq_sub, dec, options, stop, servePc, _iter, _relay_task, _monitor_task,
                   _relay_close_handler, timers, mons, iterCalls, connVars>>

\* (mutant) a result that is already there is broadcast before the cancellation lands
DecodeDone_Late(t, bufs, errs) ==
    /\ tasks[t].pc = "decode"
    /\ tasks[t].cur.ok
    /\ errs \subseteq BroadcastTargets(bufs)
    /\ _broadcast(tasks[t].cur.seq, bufs, errs)
    /\ tasks' = [tasks EXCEPT ![t].pc = "sleep", ![t].cur = None]
    /\ UNCHANGED <<callback_exc, self_sighup, _zmq_sub, dec, options, stop, servePc, _iter, _relay_task, _monitor_task,
                   _relay_close_handler, timers, mons, iterCalls, connVars, upSeq>>

\* The executor returned the envelope: yield, _broadcast(data), await sleep(0).
DecodeDone(t, bufs, errs) ==
    /\ tasks[t].pc = "decode"
    /\ ~tasks[t].cancel
    /\ tasks[t].cur.ok
    /\ errs \subseteq BroadcastTargets(bufs)
    /\ _broadcast(tasks[t].cur.seq, bufs, errs)
    /\ tasks' = [tasks EXCEPT ![t].pc = "sleep", ![t].cur = None]
    /\ UNCHANGED <<callback_exc, self_sighup, _zmq_sub, dec, options, stop, servePc, _iter, _relay_task, _monitor_task,
                   _relay_close_handler, timers, mons, iterCalls, connVars, upSeq>>

\* (mutant) a decode error is always skipped
DecodeFail_Skip(t) ==
    /\ tasks[t].pc = "decode"
    /\ ~tasks[t].cancel
    /\ ~tasks[t].cur.ok
    /\ tasks' = [tasks EXCEPT ![t].pc = "recv", ![t].cur = None]
    /\ UNCHANGED <<callback_exc, self_sighup, _zmq_sub, dec, options, stop, servePc, _iter, _relay_task, _monitor_task,
                   _relay_close_handler, timers, mons, iterCalls, connVars, ioVars>>

\* The executor raised a decode error: skip the payload, or fail the iterator.
DecodeFail(t) ==
    /\ tasks[t].pc = "decode"
    /\ ~tasks[t].cancel
    /\ ~tasks[t].cur.ok
    /\ IF options.ignore_decode_errors
       THEN /\ tasks' = [tasks EXCEPT ![t].pc = "recv", ![t].cur = None]
            /\ stop' = stop
       ELSE TaskExit(t, "closed")
    /\ UNCHANGED <<callback_exc, self_sighup, _zmq_sub, dec, options, servePc, _iter, _relay_task, _monitor_task,
                   _relay_close_handler, timers, mons, iterCalls, connVars, ioVars>>

\* sleep(0) is over: the loop asks the generator for the next item, await recv().
Resume(t) ==
    /\ tasks[t].pc = "sleep"
    /\ ~tasks[t].cancel
    /\ tasks' = [tasks EXCEPT ![t].pc = "recv"]
    /\ UNCHANGED <<callback_exc, self_sighup, _zmq_sub, dec, options, stop, servePc, _iter, _relay_task, _monitor_task,
                   _relay_close_handler, timers, mons, iterCalls, connVars, ioVars>>

\* A finite iterator (stdinter at end of input) is exhausted: the loop ends normally.
IterEnd(t) ==
    /\ tasks[t].pc = "recv"
    /\ ~tasks[t].cancel
    /\ TaskExit(t, "closed")
    /\ UNCHANGED <<callback_exc, self_sighup, _zmq_sub, dec, options, servePc, _iter, _relay_task, _monitor_task,
                   _relay_close_handler, timers, mons, iterCalls, connVars, ioVars>>

\* --------------------------------------------------------- buffer monitor
\* (mutant) a buffer exactly at the limit counts as over it
OverLimit_AtLimit(c, bufs) == IsOpen(c) /\ bufs[c] >= options.client_buffer_limit

OverLimit(c, bufs) == IsOpen(c) /\ bufs[c] > options.client_buffer_limit

\* One pass of the while loop: the sweep over a copy of _ws_conns, then sleep(interval).
MonitorSweep(t, bufs) ==
    /\ mons[t] = "alive"
    /\ _background_tasks' = _background_tasks \cup {c \in _ws_conns : OverLimit(c, bufs)}
    /\ UNCHANGED <<callback_exc, self_sighup, _zmq_sub, dec, options, stop, servePc, relayVars, connVars, sent, upSeq>>

\* An exception while the sweep examines connection c, after it examined those in done:
\* caught outside the while loop, the monitor task ends.
MonitorRaise(t, bufs, c, done) ==
    /\ mons[t] = "alive"
    /\ c \in _ws_conns
    /\ done \subseteq _ws_conns \ {c}
    /\ _background_tasks' = _background_tasks \cup {d \in done : OverLimit(d, bufs)}
    /\ mons' = [mons EXCEPT ![t] = "done"]
    /\ UNCHANGED <<callback_exc, self_sighup, _zmq_sub, dec, options, stop, servePc, _iter, _relay_task, _monitor_task,
                   _relay_close_handler, timers, tasks, iterCalls, connVars, sent, upSeq>>

\* CancelledError ends the monitor's sleep (or its first step).
MonitorCancelled(t) ==
    /\ mons[t] = "cancelled"
    /\ mons' = [mons EXCEPT ![t] = "done"]
    /\ UNCHANGED <<callback_exc, self_sighup, _zmq_sub, dec, options, stop, servePc, _iter, _relay_task, _monitor_task,
                   _relay_close_handler, timers, tasks, iterCalls, connVars, ioVars>>

Readings == {r \in [Conns -> BufSizes] : \A c \in Conns : ~IsOpen(c) => r[c] = 0}

\* ------------------------------------------------ EDDNReceiver._decode_msg
\* Object keys, in byte order ('$' sorts before letters).
KeyOrder == <<"$schemaRef", "a", "b">>
Keys == {KeyOrder[i] : i \in DOMAIN KeyOrder}
Rank(k) == CHOOSE i \in DOMAIN KeyOrder : KeyOrder[i] = k
Range(f) == {f[i] : i \in DOMAIN f}

Scalar(v, sp) == [t |-> "scalar", v |-> v, sp |-> sp, m |-> <<>>]
Object(m, sp) == [t |-> "obj", v |-> 0, sp |-> sp, m |-> m]
Array(m) == [t |-> "arr", v |-> 0, sp |-> "canon", m |-> m]
Member(k, d) == [k |-> k, d |-> d]

\* The texts the model decodes: objects of up to two members whose values are scalars
\* or objects of up to two scalar members; scalars and short arrays at the top; text
\* that is not JSON; no text.
SeqsUpTo2(S) == {<<>>} \cup {<<x>> : x \in S} \cup {<<x, y>> : x \in S, y \in S}
Scalars == {Scalar(1, "canon"), Scalar(2, "canon"), Scalar(1, "short"), Scalar(1, "long")}
InnerObjects ==
    {Object(m, "canon") :
        m \in SeqsUpTo2({Member(k, Scalar(1, "canon")) : k \in {"$schemaRef", "a"}})}
TopObjects ==
    {Object(m, sp) :
        m \in SeqsUpTo2({Member(k, d) : k \in Keys,
                                        d \in {Scalar(1, "short"), Scalar(2, "long")}
                                               \cup InnerObjects}),
        sp \in {"canon", "long"}}
TopArrays == {Array(<<>>)} \cup {Array(<<Member("", d)>>) : d \in Scalars \cup InnerObjects}
BadText == [t |-> "bad", v |-> 3, sp |-> "canon", m |-> <<>>]
EmptyText == [t |-> "empty", v |-> 0, sp |-> "canon", m |-> <<>>]
JsonTexts == TopObjects \cup TopArrays \cup Scalars
Texts == JsonTexts \cup {BadText, EmptyText}

\* len() of a text, in units: a scalar takes 2 (1 short, 3 long), a container its
\* brackets and, per member, a key or separator plus the member's text.
RECURSIVE Size(_)
RECURSIVE SizeSum(_)
SizeSum(m) == IF m = <<>> THEN 0 ELSE 1 + Size(m[1].d) + SizeSum(Tail(m))
Size(n) ==
    IF n.t = "scalar" THEN (IF n.sp = "short" THEN 1 ELSE IF n.sp = "long" THEN 3 ELSE 2)
    ELSE IF n.t \in {"obj", "arr"} THEN 2 + SizeSum(n.m) + (IF n.sp = "long" THEN 1 ELSE 0)
    ELSE n.v

\* A payload as zlib sees it: no bytes at all ("empty"), bytes that are no zlib stream
\* ("corrupt"), or a stream ("zlib") that carries the first `have` units of `text`, is
\* terminated by its checksum or not (eof), and is followed by further bytes or not.
compress(text) ==
    [kind |-> "zlib", text |-> text, have |-> Size(text), eof |-> TRUE, extra |-> FALSE]
Payloads ==
    {NoPayload, [NoPayload EXCEPT !.kind = "corrupt"]}
    \cup {compress(x) : x \in Texts}
    \cup {[compress(x) EXCEPT !.extra = TRUE] : x \in Texts}
    \cup {[compress(x) EXCEPT !.eof = FALSE] : x \in Texts}
    \cup {[compress(x) EXCEPT !.eof = FALSE, !.have = Size(x) - 1] : x \in Texts \ {EmptyText}}
SizeLimits == {0, 4}

\* (mutant) size_limit is not passed on to dobj.decompress
LimitHit_Ignored(msg, size_limit) == FALSE

\* zlib stops at max_length as soon as the stream has more output than that to give.
LimitHit(msg, size_limit) == size_limit > 0 /\ msg.have > size_limit

\* dobj.decompress(msg, size_limit): the length returned and the decompressor's
\* unconsumed_tail, unused_data and eof afterwards.
decompress(msg, size_limit) ==
    LET hit == LimitHit(msg, size_limit) IN
    [len |-> IF hit THEN size_limit ELSE msg.have,
     whole |-> ~hit /\ msg.have = Size(msg.text),
     unconsumed_tail |-> hit,
     unused_data |-> ~hit /\ msg.eof /\ msg.extra,
     eof |-> ~hit /\ msg.eof]

\* orjson.loads: the spelling is gone, a dict keeps each key once, at the place of its
\* first occurrence and with the value of its last.
RECURSIVE loads(_)
RECURSIVE DictItems(_)
DictItems(m) ==
    IF m = <<>> THEN <<>>
    ELSE LET front == DictItems(SubSeq(m, 1, Len(m) - 1))
             last == Member(m[Len(m)].k, loads(m[Len(m)].d))
         IN IF \E i \in DOMAIN front : front[i].k = last.k
            THEN [i \in DOMAIN front |-> IF front[i].k = last.k THEN last ELSE front[i]]
            ELSE Append(front, last)
loads(n) ==
    IF n.t = "obj" THEN Object(DictItems(n.m), "canon")
    ELSE IF n.t = "arr" THEN Array([i \in DOMAIN n.m |-> Member("", loads(n.m[i].d))])
    ELSE Scalar(n.v, "canon")

\* Members of a dict in byte order of their keys.
SortKeys(m) ==
    [i \in DOMAIN m |->
        CHOOSE e \in Range(m) : Cardinality({f \in Range(m) : Rank(f.k) < Rank(e.k)}) = i - 1]

\* (mutant) orjson.dumps without OPT_SORT_KEYS
RECURSIVE dumps_Unsorted(_)
dumps_Unsorted(data) ==
    IF data.t \in {"obj", "arr"}
    THEN [data EXCEPT !.m = [i \in DOMAIN data.m |->
                                Member(data.m[i].k, dumps_Unsorted(data.m[i].d))]]
    ELSE data

\* orjson.dumps(data, option=OPT_SORT_KEYS): compact text, keys sorted at every depth.
RECURSIVE dumps(_)
dumps(data) ==
    IF data.t = "obj"
    THEN Object(SortKeys([i \in DOMAIN data.m |-> Member(data.m[i].k, dumps(data.m[i].d))]),
                "canon")
    ELSE IF data.t = "arr"
    THEN Array([i \in DOMAIN data.m |-> Member("", dumps(data.m[i].d))])
    ELSE data

\* (mutant) any dict passes the schema check
HasSchemaRef_AnyDict(data) == data.t = "obj"

\* isinstance(data, dict) and "$schemaRef" in data
HasSchemaRef(data) == data.t = "obj" /\ \E i \in DOMAIN data.m : data.m[i].k = "$schemaRef"

Raise(e) == [err |-> e, out |-> NoNode]

\* _decode_msg(msg, size_limit): the exception raised, or the bytes returned.
_decode_msg(msg, size_limit) ==
    IF msg.kind = "empty" THEN Raise("Empty payload")
    ELSE IF msg.kind = "corrupt" THEN Raise("zlib.error")
    ELSE LET dobj == decompress(msg, size_limit) IN
         IF dobj.unconsumed_tail THEN Raise("Size limit exceeded")
         ELSE IF dobj.unused_data THEN Raise("Trailing garbage")
         ELSE IF ~dobj.eof THEN Raise("Truncated payload")
         ELSE IF dobj.len = 0 THEN Raise("Empty message")
         ELSE IF ~dobj.whole \/ msg.text.t = "bad" THEN Raise("JSONDecodeError")
         ELSE LET data == loads(msg.text) IN
              IF ~HasSchemaRef(data) THEN Raise("Missing $schemaRef")
              ELSE [err |-> "none", out |-> dumps(data)]

\* ------------------------------------------------------------------ spec
Next ==
    \/ ServeStart
    \/ ExternalStop
    \/ ServeStop
    \/ ServeReturn
    \/ \E h \in 1..(NConn + 1) : TimerFire(h)
    \/ \E c \in Conns, req \in Requests : ProcessRequest(c, req)
    \/ \E c \in Conns : HandlerStart(c)
    \/ \E c \in Conns : HandlerRejected(c)
    \/ \E c \in Conns : PeerClose(c)
    \/ \E c \in Conns : CloseTaskRun(c)
    \/ \E c \in Conns : ServerClose(c)
    \/ \E c \in Conns : HandlerFinish(c)
    \/ \E c \in Conns : HandlerCancelled(c)
    \/ \E t \in Tasks : TaskStart(t)
    \/ \E t \in Tasks : TaskCancelled(t)
    \/ \E t \in Tasks : GeneratorFinalize(t)
    \/ \E t \in Tasks, ok \in BOOLEAN : Recv(t, ok)
    \/ \E t \in Tasks : RecvError(t)
    \/ \E t \in Tasks : IterEnd(t)
    \/ \E t \in Tasks, bufs \in Readings, errs \in SUBSET Conns : DecodeDone(t, bufs, errs)
    \/ \E t \in Tasks : DecodeFail(t)
    \/ \E t \in Tasks : Resume(t)
    \/ \E t \in Tasks, bufs \in Readings : MonitorSweep(t, bufs)
    \/ \E t \in Tasks, bufs \in Readings, c \in Conns, done \in SUBSET Conns :
            MonitorRaise(t, bufs, c, done)
    \/ \E t \in Tasks : MonitorCancelled(t)

Spec == Init /\ [][Next]_vars

\* What the event loop guarantees: a coroutine or callback that is ready to run is run.
\* serve() resumes once its future is resolved, the closing server terminates the open
\* connections, handlers whose await has completed go on, scheduled close tasks run.
Fairness ==
    /\ WF_vars(ServeStop)
    /\ WF_vars(ServeReturn)
    /\ \A c \in Conns :
        /\ WF_vars(HandlerStart(c))
        /\ WF_vars(HandlerRejected(c))
        /\ WF_vars(ServerClose(c))
        /\ WF_vars(CloseTaskRun(c))
        /\ WF_vars(HandlerFinish(c))

FairSpec == Spec /\ Fairness

\* Also guaranteed by the event loop: a due timer callback is called, a cancelled task
\* is resumed with CancelledError, and the finalizer hook of an abandoned asynchronous
\* generator is run.
LoopFairness ==
    /\ \A h \in 1..(NConn + 1) : WF_vars(TimerFire(h))
    /\ \A t \in Tasks :
        /\ WF_vars(TaskCancelled(t))
        /\ WF_vars(GeneratorFinalize(t))
        /\ WF_vars(MonitorCancelled(t))

LoopFairSpec == Spec /\ LoopFairness

\* A second specification: one payload and one size_limit, drawn at the start, go
\* through _decode_msg; what it returns is compressed again and decoded once more.
DecodeOptions ==
    [close_delay |-> 0, connection_limit |-> 0, client_buffer_limit |-> 0,
     client_check_interval |-> 0, ignore_decode_errors |-> FALSE]

DecodeInit ==
    /\ options = DecodeOptions
    /\ stop = "none"
    /\ servePc = "init"
    /\ _iter = None
    /\ _relay_task = None
    /\ _monitor_task = None
    /\ _relay_close_handler = None
    /\ _ws_conns = {}
    /\ _background_tasks = {}
    /\ timers = {}
    /\ tasks = [t \in Tasks |-> NoTask]
    /\ mons = [t \in Tasks |-> "none"]
    /\ iterCalls = 0
    /\ cst = [c \in Conns |-> "idle"]
    /\ sent = [c \in Conns |-> <<>>]
    /\ upSeq = 0
    /\ dec \in {[NoDecode EXCEPT !.pc = "call", !.msg = p, !.size_limit = l] :
                    p \in Payloads, l \in SizeLimits}
    /\ _zmq_sub = None
    /\ self_sighup = FALSE
    /\ callback_exc = "none"

\* The executor runs _decode_msg(zmq_msg, msg_size_limit).
Decode ==
    /\ dec.pc \in {"call", "again"}
    /\ dec' = [dec EXCEPT !.res = _decode_msg(dec.msg, dec.size_limit),
                          !.pc = IF dec.pc = "call" THEN "returned" ELSE "done"]
    /\ UNCHANGED <<callback_exc, self_sighup, _zmq_sub, options, stop, servePc, relayVars, connVars, ioVars>>

\* The bytes returned are compressed and offered again (the round trip of the claims).
Reencode ==
    /\ dec.pc = "returned"
    /\ dec.res.err = "none"
    /\ dec' = [dec EXCEPT !.msg = compress(dec.res.out), !.first = dec.res,
                          !.res = NoResult, !.pc = "again"]
    /\ UNCHANGED <<callback_exc, self_sighup, _zmq_sub, options, stop, servePc, relayVars, connVars, ioVars>>

DecodeNext == Decode \/ Reencode

DecodeSpec == DecodeInit /\ [][DecodeNext]_vars

\* ------------------------------------------------------- bursts upstream
\* A fourth specification, for the scheduling of the relay loop: the upstream endpoint
\* never stops publishing.  Beyond MaxMsgs payloads the arrival number stays at MaxMsgs,
\* and a payload is taken off the socket only while every client queue has room, the
\* transports meanwhile writing out what they hold.
BurstOptionSets ==
    {o \in OptionSets : o.close_delay = 0 /\ o.connection_limit = 1
                        /\ o.client_buffer_limit = 1 /\ o.client_check_interval = 1
                        /\ o.ignore_decode_errors}

BurstInit == Init /\ options \in BurstOptionSets

\* The transport of connection c writes the frame at the head of its buffer to the peer.
Drain(c) ==
    /\ cst[c] = "open"
    /\ sent[c] # <<>>
    /\ sent' = [sent EXCEPT ![c] = Tail(sent[c])]
    /\ UNCHANGED <<callback_exc, self_sighup, _zmq_sub, dec, options, stop, servePc, relayVars, connVars, upSeq,
                   _background_tasks>>

\* socket.recv() returns one more payload of the burst.
RecvBurst(t, ok) ==
    /\ tasks[t].pc = "recv"
    /\ ~tasks[t].cancel
    /\ upSeq = MaxMsgs
    /\ \A c \in Conns : Len(sent[c]) < MaxMsgs
    /\ tasks' = [tasks EXCEPT ![t].pc = "decode", ![t].cur = [seq |-> upSeq, ok |-> ok]]
    /\ UNCHANGED <<callback_exc, self_sighup, _zmq_sub, dec, options, stop, servePc, _iter, _relay_task, _monitor_task,
                   _relay_close_handler, timers, mons, iterCalls, connVars, ioVars>>

BurstNext ==
    \/ Next
    \/ \E c \in Conns : Drain(c)
    \/ \E t \in Tasks, ok \in BOOLEAN : RecvBurst(t, ok)

BurstSpec == BurstInit /\ [][BurstNext]_vars /\ Fairness /\ LoopFairness

\* ---------------------------------------- EDDNWebsocketServer (eddnws.py)
\* The monolithic server: the same fields as WebsocketRelay (connection set, relay and
\* monitor task, timer handle) plus its own ZMQ socket; its options are ServerOptions.
\* A third specification runs it on the same variables.
MonoOptionSets ==
    [ping_path : {"", "/ping"},             \* "": not set (None), no health check
     connection_limit : ConnectionLimits,
     client_buffer_limit : BufferLimits]

MonoInit ==
    /\ options \in MonoOptionSets
    /\ stop = "none"
    /\ servePc = "init"
    /\ _iter = None
    /\ _relay_task = None
    /\ _monitor_task = None
    /\ _relay_close_handler = None
    /\ _ws_conns = {}
    /\ _background_tasks = {}
    /\ timers = {}
    /\ tasks = [t \in Tasks |-> NoTask]
    /\ mons = [t \in Tasks |-> "none"]
    /\ iterCalls = 0
    /\ cst = [c \in Conns |-> "idle"]
    /\ sent = [c \in Conns |-> <<>>]
    /\ upSeq = 0
    /\ dec = NoDecode
    /\ _zmq_sub = None
    /\ self_sighup = FALSE
    /\ callback_exc = "none"

MonoRelay ==
    [zmq_sub |-> _zmq_sub, relay_task |-> _relay_task, monitor_task |-> _monitor_task,
     handler |-> _relay_close_handler, timers |-> timers, tasks |-> tasks, mons |-> mons]

MonoSetRelay(R) ==
    /\ _zmq_sub' = R.zmq_sub
    /\ _relay_task' = R.relay_task
    /\ _monitor_task' = R.monitor_task
    /\ _relay_close_handler' = R.handler
    /\ timers' = R.timers
    /\ tasks' = R.tasks
    /\ mons' = R.mons
    /\ UNCHANGED <<_iter, iterCalls, dec, options, callback_exc, self_sighup>>

\* asyncio.create_task: the next task object
NewTask(T) == CHOOSE t \in Tasks : T[t].pc = "none" /\ \A u \in Tasks : u < t => T[u].pc # "none"

\* _zmq_connect: warns and returns when a socket exists, else opens socket n.
Mono_zmq_connect(R, n) == IF R.zmq_sub # None THEN R ELSE [R EXCEPT !.zmq_sub = n]

\* _relay_start of the monolithic server: always starts a monitor task.
Mono_relay_start(R) ==
    IF \/ (R.relay_task # None /\ ~TaskDone(R, R.relay_task))
       \/ (R.monitor_task # None /\ ~MonDone(R, R.monitor_task))
    THEN R      \* logger.warning("relay tasks not done"); return
    ELSE LET n == NewTask(R.tasks) IN
         [Mono_zmq_connect(R, n) EXCEPT !.relay_task = n,
                                        !.tasks[n] = [NoTask EXCEPT !.pc = "created"],
                                        !.monitor_task = n,
                                        !.mons[n] = "alive"]

\* _relay_stop of the monolithic server: the socket is closed here.
Mono_relay_stop(R) ==
    [R EXCEPT !.timers = IF R.handler # None THEN @ \ {R.handler} ELSE @,
              !.handler = None,
              !.tasks = IF R.relay_task # None THEN CancelTask(@, R.relay_task) ELSE @,
              !.relay_task = None,
              !.mons = IF R.monitor_task # None THEN CancelMon(@, R.monitor_task) ELSE @,
              !.monitor_task = None,
              !.zmq_sub = None]

\* _process_request of the monolithic server: "error" is the KeyError of
\* request_headers["Upgrade"] on a request without that header.
Mono_process_request(req) ==
    IF req = "ping" THEN "pinged"
    ELSE IF req = "plain" THEN "error"
    ELSE IF options.connection_limit > 0
                /\ Cardinality(_ws_conns) >= options.connection_limit THEN "refused"
    ELSE "none"

\* A request arrives.  serve() installs _process_request only if ping_path is set; a
\* request to "/ping" is the health check only then.
MonoProcessRequest(c, req) ==
    /\ servePc = "waiting"
    /\ cst[c] = "idle"
    /\ \A d \in Conns : d < c => cst[d] # "idle"
    /\ LET resp == IF options.ping_path # "" THEN Mono_process_request(req) ELSE "none" IN
        cst' = [cst EXCEPT ![c] = IF resp \in {"pinged", "refused"} THEN resp
                                  ELSE IF resp = "none" /\ req = "upgrade" THEN "upgrading"
                                  ELSE "failed"]
    /\ UNCHANGED <<callback_exc, self_sighup, _zmq_sub, dec, options, stop, servePc, relayVars, _ws_conns, ioVars>>

\* _ws_handler of the monolithic server up to "await wait_closed()".
MonoHandlerStart(c) ==
    /\ servePc \in {"waiting", "closing"}
    /\ cst[c] = "upgrading"
    /\ _ws_conns' = _ws_conns \cup {c}
    /\ cst' = [cst EXCEPT ![c] = "open"]
    /\ LET R1 == _relay_close_cancel(MonoRelay) IN
        MonoSetRelay(IF R1.relay_task = None \/ TaskDone(R1, R1.relay_task)
                     THEN Mono_relay_start(R1) ELSE R1)
    /\ UNCHANGED <<stop, servePc, ioVars>>

\* The finally block of that handler.
MonoHandlerFinish(c) ==
    /\ cst[c] = "closed"
    /\ c \in _ws_conns
    /\ _ws_conns' = _ws_conns \ {c}
    /\ cst' = [cst EXCEPT ![c] = "gone"]
    /\ MonoSetRelay(IF _ws_conns \ {c} = {} /\ _relay_task # None
                    THEN _relay_close(MonoRelay) ELSE MonoRelay)
    /\ sent' = [sent EXCEPT ![c] = <<>>]
    /\ UNCHANGED <<stop, servePc, upSeq, _background_tasks>>

\* The timer callback: _relay_stop.
MonoTimerFire(h) ==
    /\ h \in timers
    /\ MonoSetRelay(Mono_relay_stop([MonoRelay EXCEPT !.timers = @ \ {h}]))
    /\ UNCHANGED <<stop, servePc, connVars, ioVars>>

\* serve() up to "await stop": the future is created, the signal handlers installed.
MonoServeStart ==
    /\ servePc = "init"
    /\ servePc' = "waiting"
    /\ stop' = "pending"
    /\ UNCHANGED <<callback_exc, self_sighup, _zmq_sub, dec, options, relayVars, connVars, ioVars>>

\* asyncio.Future.set_result as a loop callback: a pending future takes the result; on
\* a future that is already done it raises InvalidStateError, which the loop catches
\* and hands to its exception handler.
Mono_set_result(sig) ==
    IF stop = "pending"
    THEN stop' = sig /\ callback_exc' = callback_exc
    ELSE stop' = stop /\ callback_exc' = "InvalidStateError"

\* A termination signal from outside: the loop runs the handler serve() installed,
\* stop.set_result(sig.name).  The handlers stay installed while the loop runs.
MonoSignal(sig) ==
    /\ servePc \in {"waiting", "closing"}
    /\ Mono_set_result(sig)
    /\ UNCHANGED <<self_sighup, _zmq_sub, dec, options, servePc, relayVars, connVars, ioVars>>

\* The SIGHUP the relay task sent to its own process is delivered: the same handler.
MonoSelfSignal ==
    /\ servePc \in {"waiting", "closing"}
    /\ self_sighup
    /\ self_sighup' = FALSE
    /\ Mono_set_result("SIGHUP")
    /\ UNCHANGED <<_zmq_sub, dec, options, servePc, relayVars, connVars, ioVars>>

MonoServeStop ==
    /\ servePc = "waiting"
    /\ stop \notin {"none", "pending"}
    /\ servePc' = "closing"
    /\ MonoSetRelay(Mono_relay_stop(MonoRelay))
    /\ UNCHANGED <<stop, connVars, ioVars>>

\* _relay_messages: the while condition, then "await self._zmq_sub.recv()".
MonoLoopTop == IF _zmq_sub # None THEN "recv" ELSE "done"

MonoTaskStart(t) ==
    /\ tasks[t].pc = "created"
    /\ ~tasks[t].cancel
    /\ tasks' = [tasks EXCEPT ![t].pc = MonoLoopTop]
    /\ UNCHANGED <<callback_exc, self_sighup, _zmq_sub, dec, options, stop, servePc, _iter, _relay_task, _monitor_task,
                   _relay_close_handler, timers, mons, iterCalls, connVars, ioVars>>

MonoRecv(t, ok) ==
    /\ tasks[t].pc = "recv"
    /\ ~tasks[t].cancel
    /\ upSeq < MaxMsgs
    /\ upSeq' = upSeq + 1
    /\ tasks' = [tasks EXCEPT ![t].pc = "decode", ![t].cur = [seq |-> upSeq + 1, ok |-> ok]]
    /\ UNCHANGED <<callback_exc, self_sighup, _zmq_sub, dec, options, stop, servePc, _iter, _relay_task, _monitor_task,
                   _relay_close_handler, timers, mons, iterCalls, connVars, sent,
                   _background_tasks>>

\* recv() raised: the task sends SIGHUP to its own process (delivered later, as a
\* MonoSelfSignal step) and leaves the loop.
MonoRecvError(t) ==
    /\ tasks[t].pc = "recv"
    /\ ~tasks[t].cancel
    /\ tasks' = [tasks EXCEPT ![t].pc = "done"]
    /\ self_sighup' = TRUE
    /\ UNCHANGED <<callback_exc, _zmq_sub, dec, options, stop, servePc, _iter, _relay_task,
                   _monitor_task, _relay_close_handler, timers, mons, iterCalls, connVars,
                   ioVars>>

\* websockets.broadcast(self._ws_conns, data): every OPEN member is written the frame
\* (errs: those whose write fails, which broadcast logs); then the while condition.
MonoDecodeDone(t, errs) ==
    /\ tasks[t].pc = "decode"
    /\ ~tasks[t].cancel
    /\ tasks[t].cur.ok
    /\ errs \subseteq {c \in _ws_conns : IsOpen(c)}
    /\ sent' = [c \in Conns |->
                  IF c \in _ws_conns /\ IsOpen(c) /\ c \notin errs
                  THEN Append(sent[c], tasks[t].cur.seq) ELSE sent[c]]
    /\ tasks' = [tasks EXCEPT ![t].pc = MonoLoopTop, ![t].cur = None]
    /\ UNCHANGED <<callback_exc, self_sighup, _zmq_sub, dec, options, stop, servePc, _iter, _relay_task, _monitor_task,
                   _relay_close_handler, timers, mons, iterCalls, connVars, upSeq,
                   _background_tasks>>

\* A decode error is logged and the loop continues.
MonoDecodeFail(t) ==
    /\ tasks[t].pc = "decode"
    /\ ~tasks[t].cancel
    /\ ~tasks[t].cur.ok
    /\ tasks' = [tasks EXCEPT ![t].pc = MonoLoopTop, ![t].cur = None]
    /\ UNCHANGED <<callback_exc, self_sighup, _zmq_sub, dec, options, stop, servePc, _iter, _relay_task, _monitor_task,
                   _relay_close_handler, timers, mons, iterCalls, connVars, ioVars>>

\* CancelledError ends the task where it is suspended (or before its first step).
MonoTaskCancelled(t) ==
    /\ tasks[t].pc \in {"created", "recv", "decode"}
    /\ tasks[t].cancel
    /\ tasks' = [tasks EXCEPT ![t].pc = "done", ![t].cancel = FALSE, ![t].cur = None]
    /\ UNCHANGED <<callback_exc, self_sighup, _zmq_sub, dec, options, stop, servePc, _iter, _relay_task, _monitor_task,
                   _relay_close_handler, timers, mons, iterCalls, connVars, ioVars>>

\* _monitor_client_buffers: the while condition, one sweep, sleep(1).
MonoMonitorStep(t, bufs) ==
    /\ mons[t] = "alive"
    /\ IF options.client_buffer_limit > 0
       THEN /\ _background_tasks' =
                    _background_tasks \cup {c \in _ws_conns : OverLimit(c, bufs)}
            /\ mons' = mons
       ELSE /\ mons' = [mons EXCEPT ![t] = "done"]
            /\ _background_tasks' = _background_tasks
    /\ UNCHANGED <<callback_exc, self_sighup, _zmq_sub, dec, options, stop, servePc, _iter, _relay_task, _monitor_task,
                   _relay_close_handler, timers, tasks, iterCalls, connVars, sent, upSeq>>

MonoNext ==
    \/ MonoServeStart
    \/ \E sig \in {"SIGTERM", "SIGHUP"} : MonoSignal(sig)
    \/ MonoSelfSignal
    \/ MonoServeStop
    \/ ServeReturn
    \/ \E h \in 1..(NConn + 1) : MonoTimerFire(h)
    \/ \E c \in Conns, req \in Requests : MonoProcessRequest(c, req)
    \/ \E c \in Conns : MonoHandlerStart(c)
    \/ \E c \in Conns : PeerClose(c)
    \/ \E c \in Conns : CloseTaskRun(c)
    \/ \E c \in Conns : ServerClose(c)
    \/ \E c \in Conns : MonoHandlerFinish(c)
    \/ \E t \in Tasks : MonoTaskStart(t)
    \/ \E t \in Tasks : MonoTaskCancelled(t)
    \/ \E t \in Tasks, ok \in BOOLEAN : MonoRecv(t, ok)
    \/ \E t \in Tasks : MonoRecvError(t)
    \/ \E t \in Tasks, errs \in SUBSET Conns : MonoDecodeDone(t, errs)
    \/ \E t \in Tasks : MonoDecodeFail(t)
    \/ \E t \in Tasks, bufs \in Readings : MonoMonitorStep(t, bufs)
    \/ \E t \in Tasks : MonitorCancelled(t)

MonoSpec == MonoInit /\ [][MonoNext]_vars

\* ================================================================ claims
OnDemand == options.close_delay >= 0
Eager == options.close_delay < 0
StopUnresolved == stop \in {"none", "pending"}
TimerArmed == _relay_close_handler # None /\ _relay_close_handler \in timers
\* The upstream subscription is held: an iterator exists and its relay task is alive.
SubscriptionHeld == _iter # None /\ _relay_task # None /\ tasks[_relay_task].pc # "done"

\* C1 -- Lifecycle gating.  With close_delay >= 0 and the stop future unresolved, the
\* upstream subscription is held if and only if the Connection Set is non-empty or a
\* teardown timer is armed.
C1_LifecycleGating ==
    (OnDemand /\ StopUnresolved) => (SubscriptionHeld <=> (_ws_conns # {} \/ TimerArmed))

\* C1 witness: STOP_PENDING -- no client, the timer armed, the subscription still held.
C1_Witness ==
    /\ OnDemand /\ StopUnresolved
    /\ _ws_conns = {} /\ TimerArmed /\ SubscriptionHeld
    /\ \E c \in Conns : cst[c] = "gone"

\* The inline buffer check of a broadcast turns connection c away (restated from the
\* options, for the claims about delivery).
EvictedInline(c, bufs) ==
    /\ options.client_check_interval <= 0
    /\ options.client_buffer_limit > 0
    /\ bufs[c] >= options.client_buffer_limit

\* C2 -- Grace window.  With close_delay >= 0, when the last client has left and a new
\* client is added while the teardown timer is still armed (stop future unresolved), the
\* timer is cancelled, iter_factory is not called again, the same unfinished relay task
\* stays recorded on the same iterator, and the next envelope that task yields is
\* enqueued to the new client.
C2_GraceWindow ==
    [][/\ \A c \in Conns :
            (HandlerStart(c) /\ OnDemand /\ StopUnresolved /\ _ws_conns = {} /\ TimerArmed)
            => /\ c \in _ws_conns' /\ cst'[c] = "open"
               /\ _relay_close_handler' = None
               /\ _relay_close_handler \notin timers'
               /\ iterCalls' = iterCalls
               /\ _relay_task' = _relay_task /\ _relay_task # None
               /\ _iter' = _iter /\ _iter # None
               /\ tasks' = tasks
               /\ tasks[_relay_task].pc \notin {"none", "done"}
               /\ ~tasks[_relay_task].cancel
               /\ tasks[_relay_task].it \in {None, _iter}
       /\ \A t \in Tasks, bufs \in Readings, errs \in SUBSET Conns :
            DecodeDone(t, bufs, errs)
            => /\ t = _relay_task /\ tasks[t].it = _iter
               /\ \A c \in _ws_conns :
                    (cst[c] = "open" /\ sent[c] = <<>> /\ ~EvictedInline(c, bufs)
                        /\ c \notin errs)
                    => sent'[c] = <<tasks[t].cur.seq>>
      ]_vars

\* C2 witness: with room for one client, the first client has come and gone, the second
\* is a member, iter_factory was called once, the first relay task is still the recorded
\* one and has enqueued an envelope to the second client.
C2_Witness ==
    /\ OnDemand /\ StopUnresolved
    /\ options.connection_limit = 1
    /\ cst[1] = "gone" /\ cst[2] = "open" /\ _ws_conns = {2}
    /\ iterCalls = 1 /\ _relay_task = 1 /\ _iter = 1
    /\ _relay_close_handler = None /\ timers = {}
    /\ sent[2] # <<>>

\* C3 -- Capacity cap.  With connection_limit > 0 the Connection Set never holds more
\* than connection_limit connections.
C3_CapacityCap ==
    options.connection_limit > 0 => Cardinality(_ws_conns) <= options.connection_limit

\* C3 witness: a handshake that passed the pre-upgrade check while the set was below the
\* limit finds it full when its handler runs, and is turned away there.
C3_Witness ==
    /\ options.connection_limit > 0
    /\ Cardinality(_ws_conns) = options.connection_limit
    /\ \E c \in Conns : cst[c] = "rejecting"

\* C4 -- Fan-out correctness.  The broadcast of an envelope enqueues it exactly once to
\* every member of the Connection Set that is OPEN and not turned away by the inline
\* buffer check (and whose send does not raise), and changes the queue of no other
\* connection, member or not.
C4_FanOut ==
    [][\A t \in Tasks, bufs \in Readings, errs \in SUBSET Conns :
            DecodeDone(t, bufs, errs)
            => \A c \in Conns :
                 IF c \in _ws_conns /\ cst[c] = "open" /\ ~EvictedInline(c, bufs)
                        /\ c \notin errs
                 THEN sent'[c] = Append(sent[c], tasks[t].cur.seq)
                 ELSE sent'[c] = sent[c]
      ]_vars

\* C4 witness: right after the first broadcast one member holds the envelope while a
\* member that had already left OPEN (its handler has not removed it yet) holds nothing.
C4_Witness ==
    /\ upSeq = 1
    /\ _relay_task # None /\ tasks[_relay_task].pc = "sleep"
    /\ \E c \in _ws_conns, d \in _ws_conns :
        /\ cst[c] = "open" /\ sent[c] = <<1>>
        /\ cst[d] = "closed" /\ sent[d] = <<>>

\* C5 -- Per-connection ordering.  What has been enqueued to a connection is, in order,
\* a subsequence of the payloads as they arrived upstream: strictly increasing arrival
\* numbers, none twice, none that has not arrived.
C5_Ordering ==
    \A c \in Conns :
        /\ \A i \in 1..Len(sent[c]) : sent[c][i] \in 1..upSeq
        /\ \A i \in 1..Len(sent[c]), j \in 1..Len(sent[c]) : i < j => sent[c][i] < sent[c][j]

\* C5 witness: a connection has been enqueued two envelopes.
C5_Witness == \E c \in _ws_conns : sent[c] = <<1, 2>>

StopResolved == stop \notin {"none", "pending"}

\* C6 -- Upstream end is fatal.  When the iterator of the recorded relay task (lifecycle
\* RUNNING or STOP_PENDING, either mode) ends or raises, the task's exit resolves the stop
\* future; serve(), once resumed, stops the relay; and a resolved stop future leads to
\* serve() returning.
C6_UpstreamEndFatal ==
    /\ [][/\ \A t \in Tasks :
                ((RecvError(t) \/ IterEnd(t)
                    \/ (DecodeFail(t) /\ ~options.ignore_decode_errors))
                 /\ _relay_task # None)
                => /\ t = _relay_task
                   /\ stop' \notin {"none", "pending"}
                   /\ tasks'[t].pc = "done"
          /\ ServeStop
                => /\ stop \notin {"none", "pending"}
                   /\ _relay_task' = None /\ _iter' = None /\ _monitor_task' = None
                   /\ \A t \in Tasks : tasks'[t].pc \notin {"none", "done"} => tasks'[t].cancel
         ]_vars
    /\ (stop \notin {"none", "pending"}) ~> (servePc = "returned")

\* C6 witness: the iterator ended while a client was connected, the stop future carries
\* the task's result and serve() has returned.
C6_Witness ==
    /\ stop = "Iterator EOF"
    /\ servePc = "returned"
    /\ _relay_task = None
    /\ \E c \in Conns : cst[c] = "gone"

\* C7 -- Slow-consumer eviction by the monitor.  With client_check_interval > 0 and
\* client_buffer_limit > 0, a sweep of the running monitor schedules a close (1008) for
\* every OPEN member whose write-buffer size is strictly greater than client_buffer_limit
\* and for no connection whose size is at or below the limit; a connection with a close
\* scheduled is eventually removed from the Connection Set.
C7_MonitorEviction ==
    /\ [][\A t \in Tasks, bufs \in Readings :
            MonitorSweep(t, bufs)
            => /\ options.client_check_interval > 0 /\ options.client_buffer_limit > 0
               /\ t = _monitor_task /\ _relay_task # None
               /\ \A c \in Conns :
                    IF c \in _ws_conns /\ cst[c] = "open"
                            /\ bufs[c] > options.client_buffer_limit
                    THEN c \in _background_tasks'
                    ELSE c \in _background_tasks' <=> c \in _background_tasks
         ]_vars
    /\ \A c \in Conns : (c \in _background_tasks) ~> (c \notin _ws_conns /\ cst[c] = "gone")

\* C7 witness: the monitor is running, one member has a close scheduled by it and the
\* other member does not.
C7_Witness ==
    /\ options.client_check_interval > 0 /\ options.client_buffer_limit > 0
    /\ _monitor_task # None /\ mons[_monitor_task] = "alive"
    /\ _ws_conns = Conns
    /\ \E c \in Conns : c \in _background_tasks /\ \E d \in Conns : d \notin _background_tasks
    /\ \A c \in Conns : cst[c] = "open"

\* C8 -- Decode-failure policy.  When a payload fails to decode: with
\* ignore_decode_errors the payload is dropped, nothing is enqueued to any client, the
\* stop future is untouched and the task goes back to receiving on the same open socket;
\* without it the task ends, the stop future is resolved, nothing is enqueued, and the
\* server goes on to shut down.  Only payloads that decoded are ever enqueued.
C8_DecodeFailurePolicy ==
    /\ [][/\ \A t \in Tasks :
                DecodeFail(t)
                => /\ sent' = sent
                   /\ IF options.ignore_decode_errors
                      THEN /\ stop' = stop
                           /\ tasks'[t].pc = "recv" /\ tasks'[t].sock = "open"
                           /\ tasks'[t].it = tasks[t].it
                      ELSE /\ stop' \notin {"none", "pending"}
                           /\ tasks'[t].pc = "done" /\ tasks'[t].sock = "closed"
          /\ \A c \in Conns :
                sent'[c] # sent[c]
                => \/ sent'[c] = <<>>
                   \/ \E t \in Tasks :
                        /\ tasks[t].pc = "decode" /\ tasks[t].cur.ok
                        /\ sent'[c] = Append(sent[c], tasks[t].cur.seq)
         ]_vars
    /\ (~options.ignore_decode_errors /\ stop = "Iterator EOF") ~> (servePc = "returned")

\* C8 witness: on demand, without buffer limit and with ignore_decode_errors, the only
\* client ever started the relay and is still OPEN; the first payload reached nobody and
\* the second has been enqueued by the same task on the same iterator.
C8_Witness ==
    /\ options.ignore_decode_errors /\ options.client_buffer_limit = 0
    /\ OnDemand /\ iterCalls = 1 /\ _relay_task = 1 /\ stop = "pending"
    /\ cst = [c \in Conns |-> IF c = 1 THEN "open" ELSE "idle"]
    /\ sent[1] = <<2>>

UnfinishedTasks == {t \in Tasks : tasks[t].pc \notin {"none", "done"}}
UnfinishedMonitors == {t \in Tasks : mons[t] \notin {"none", "done"}}
OpenIterators == {t \in Tasks : tasks[t].sock = "open"}

\* C9 -- Lifecycle state invariants.  At most one relay task is unfinished, at most one
\* monitor task is unfinished and at most one upstream iterator is open; when no relay
\* task is recorded (IDLE) there is none of the three.
C9_LifecycleInvariants ==
    /\ Cardinality(UnfinishedTasks) <= 1
    /\ Cardinality(UnfinishedMonitors) <= 1
    /\ Cardinality(OpenIterators) <= 1
    /\ _relay_task = None
        => UnfinishedTasks = {} /\ UnfinishedMonitors = {} /\ OpenIterators = {}

\* C10 -- Eager mode.  With close_delay < 0 the relay is started once, by serve() at
\* server start; no other step starts it, only serve() after the stop future resolved
\* stops it, and no teardown timer is ever armed.
C10_EagerMode ==
    [][Eager =>
        /\ timers' = {} /\ _relay_close_handler' = None
        /\ iterCalls' # iterCalls => (ServeStart /\ iterCalls = 0 /\ iterCalls' = 1)
        /\ <<_iter, _relay_task, _monitor_task>>' # <<_iter, _relay_task, _monitor_task>>
            => \/ ServeStart
               \/ ServeStop /\ stop \notin {"none", "pending"}
        /\ \A t \in Tasks : (tasks'[t].cancel /\ ~tasks[t].cancel) => ServeStop
        /\ \A t \in Tasks : (mons'[t] = "cancelled" /\ mons[t] # "cancelled") => ServeStop
        /\ (\E c \in Conns : HandlerStart(c) \/ HandlerFinish(c)
                \/ (\E req \in Requests : ProcessRequest(c, req))
                \/ PeerClose(c) \/ HandlerRejected(c) \/ CloseTaskRun(c))
            => UNCHANGED relayVars
      ]_vars

\* C10 witness: eager mode, a client has come and gone, nobody is connected, and the
\* relay started at server start is still the recorded one, unfinished, with no timer.
C10_Witness ==
    /\ Eager /\ stop = "pending"
    /\ _ws_conns = {} /\ \E c \in Conns : cst[c] = "gone"
    /\ iterCalls = 1 /\ _relay_task = 1 /\ tasks[1].pc \in {"recv", "sleep", "decode"}
    /\ timers = {} /\ _relay_close_handler = None

\* C12 -- Health probe.  A request to the configured ping_path is answered 200 "OK\n"
\* whatever the size of the Connection Set; the step leaves the Connection Set, the relay
\* task, the timer and the iterator unchanged; the connection is never upgraded and
\* never becomes a member.
C12_HealthProbe ==
    [][/\ \A c \in Conns :
            ProcessRequest(c, "ping")
            => /\ cst'[c] = "pinged"
               /\ _ws_conns' = _ws_conns
               /\ <<_relay_task, _monitor_task, _iter, _relay_close_handler, timers,
                    tasks, mons, iterCalls>>' =
                  <<_relay_task, _monitor_task, _iter, _relay_close_handler, timers,
                    tasks, mons, iterCalls>>
       /\ \A c \in Conns :
            cst[c] = "pinged" => cst'[c] = "pinged" /\ c \notin _ws_conns'
      ]_vars

\* C12 witness: the Connection Set is at its limit and a health check was answered.
C12_Witness ==
    /\ options.connection_limit = 1
    /\ _ws_conns = {1} /\ cst[1] = "open"
    /\ cst[2] = "pinged"

\* C13 -- Pre-upgrade capacity rejection.  With connection_limit > 0, an upgrade request
\* (not to ping_path) that arrives while the Connection Set holds connection_limit or
\* more connections is answered 503 "Connection limit reached\n"; it is not upgraded and
\* never becomes a member.
C13_PreUpgradeRejection ==
    [][/\ \A c \in Conns :
            (ProcessRequest(c, "upgrade") /\ options.connection_limit > 0
                /\ Cardinality(_ws_conns) >= options.connection_limit)
            => /\ cst'[c] = "refused"
               /\ _ws_conns' = _ws_conns
       /\ \A c \in Conns :
            cst[c] = "refused" => cst'[c] = "refused" /\ c \notin _ws_conns'
       /\ \A c \in Conns :
            (ProcessRequest(c, "upgrade")
                /\ ~(options.connection_limit > 0
                        /\ Cardinality(_ws_conns) >= options.connection_limit))
            => cst'[c] = "upgrading"
      ]_vars

\* C13 witness: one member fills the set and the next upgrade request got the 503.
C13_Witness ==
    /\ options.connection_limit = 1
    /\ _ws_conns = {1} /\ cst[1] = "open"
    /\ cst[2] = "refused"

\* C11 -- Subscriber socket release.  The socket __aiter__ opened is closed in the very
\* step in which iteration ends by a transport error, by a decode error without
\* ignore_decode_errors, by exhaustion, or by cancellation of the task while it is
\* suspended inside the iterator (receiving or decoding); a closed socket is never
\* reopened; and a socket left open by a task that was cancelled between two envelopes
\* (or is about to be cancelled) is eventually closed.
C11_SocketRelease ==
    /\ [][\A t \in Tasks :
            /\ (RecvError(t) \/ IterEnd(t)
                    \/ (DecodeFail(t) /\ ~options.ignore_decode_errors))
                => tasks[t].sock = "open" /\ tasks'[t].sock = "closed"
            /\ (TaskCancelled(t) /\ tasks[t].pc \in {"recv", "decode"})
                => tasks[t].sock = "open" /\ tasks'[t].sock = "closed"
            /\ (TaskCancelled(t) /\ tasks[t].pc = "created")
                => tasks[t].sock = "none" /\ tasks'[t].sock = "none"
            /\ tasks[t].sock = "closed" => tasks'[t].sock = "closed"
         ]_vars
    /\ \A t \in Tasks :
        (tasks[t].sock = "open" /\ (tasks[t].cancel \/ tasks[t].pc = "done"))
            ~> (tasks[t].sock = "closed")

\* C11 witness: a relay task was cancelled between two envelopes and has finished; the
\* generator it abandoned at its yield still holds the socket open.
C11_Witness ==
    \E t \in Tasks : tasks[t].pc = "done" /\ tasks[t].sock = "open" /\ _relay_task # t

\* C17 -- Idle teardown liveness.  With close_delay >= 0: the handler step that removes
\* the last client while a relay task is recorded arms a timer and leaves the relay
\* running; the timer callback cancels the relay task and the monitor task and clears
\* task, monitor, iterator and timer (IDLE); and from an armed timer with no client,
\* unless a client connects, the lifecycle becomes IDLE with the relay task finished,
\* its monitor finished and its socket closed.
C17_IdleTeardown ==
    /\ [][/\ \A c \in Conns :
                (HandlerFinish(c) /\ OnDemand /\ _ws_conns = {c} /\ _relay_task # None)
                => /\ _relay_close_handler' # None
                   /\ timers' = {_relay_close_handler'}
                   /\ <<_relay_task, _monitor_task, _iter, tasks, mons>>' =
                      <<_relay_task, _monitor_task, _iter, tasks, mons>>
          /\ \A h \in 1..(NConn + 1) :
                TimerFire(h)
                => /\ h = _relay_close_handler
                   /\ _relay_task' = None /\ _monitor_task' = None /\ _iter' = None
                   /\ _relay_close_handler' = None /\ timers' = {}
                   /\ _relay_task # None
                        => tasks'[_relay_task].cancel \/ tasks[_relay_task].pc = "done"
                   /\ _monitor_task # None
                        => mons'[_monitor_task] \in {"cancelled", "done"}
                   /\ stop' = stop
         ]_vars
    /\ \A t \in Tasks :
        (OnDemand /\ TimerArmed /\ _ws_conns = {} /\ _relay_task = t)
            ~> \/ _ws_conns # {}
               \/ /\ _relay_task = None /\ _monitor_task = None /\ _iter = None
                  /\ ~TimerArmed
                  /\ tasks[t].pc = "done" /\ tasks[t].sock # "open"
                  /\ mons[t] \in {"none", "done"}

\* C17 witness: the only client has left, the timer has fired, the stop future is still
\* pending and the lifecycle is IDLE with the first relay task finished and its socket
\* closed.
C17_Witness ==
    /\ OnDemand /\ stop = "pending" /\ servePc = "waiting"
    /\ _ws_conns = {} /\ cst[1] = "gone" /\ cst[2] = "idle"
    /\ _relay_task = None /\ _monitor_task = None /\ _iter = None
    /\ _relay_close_handler = None /\ timers = {}
    /\ iterCalls = 1 /\ tasks[1].pc = "done" /\ tasks[1].sock = "closed"

\* C18 -- An idle teardown never shuts the server down.  The timer callback leaves the
\* stop future as it is, and so does the cleanup of a relay task that was cancelled,
\* whatever has happened between the cancellation and the cleanup.
C18_TeardownKeepsServing ==
    [][/\ \A h \in 1..(NConn + 1) : TimerFire(h) => stop' = stop
       /\ \A t \in Tasks : TaskCancelled(t) => stop' = stop
      ]_vars

\* C19 -- No in-process restart.  Once the recorded relay task has finished (its iterator
\* ended or failed), no step calls iter_factory or records another relay task or
\* iterator.
C19_NoRestart ==
    [][(_relay_task # None /\ tasks[_relay_task].pc = "done")
        => /\ iterCalls' = iterCalls
           /\ _relay_task' \in {_relay_task, None}
           /\ _iter' \in {_iter, None}
           /\ \A t \in Tasks : tasks[t].pc = "none" => tasks'[t].pc = "none"
      ]_vars

\* C20 -- Orderly shutdown.  serve() runs _relay_stop once the stop future is resolved,
\* before the listener closes; and once serve() has returned there is no relay task, no
\* monitor task, no armed timer and no iterator.
C20_OrderlyShutdown ==
    /\ servePc \in {"closing", "returned"} => stop \notin {"none", "pending"}
    /\ servePc = "returned"
        => /\ _relay_task = None /\ _monitor_task = None /\ _iter = None
           /\ _relay_close_handler = None /\ timers = {}
           /\ \A t \in Tasks : tasks[t].pc \in {"none", "done"} \/ tasks[t].cancel

\* Keys in strictly increasing byte order in every object of a text, canonical spelling
\* throughout.
RECURSIVE SortedAtEveryDepth(_)
SortedAtEveryDepth(n) ==
    /\ n.sp = "canon"
    /\ n.t = "obj" => \A i \in DOMAIN n.m, j \in DOMAIN n.m :
                          i < j => Rank(n.m[i].k) < Rank(n.m[j].k)
    /\ \A i \in DOMAIN n.m : SortedAtEveryDepth(n.m[i].d)

\* No object of the text names a key twice.
RECURSIVE UniqueKeys(_)
UniqueKeys(n) ==
    /\ n.t = "obj" => \A i \in DOMAIN n.m, j \in DOMAIN n.m : n.m[i].k = n.m[j].k => i = j
    /\ \A i \in DOMAIN n.m : UniqueKeys(n.m[i].d)

\* The texts that differ from n only in the order of object keys, at any depth.
RECURSIVE Reorderings(_)
Reorderings(n) ==
    IF n.t \notin {"obj", "arr"} THEN {n}
    ELSE LET I == DOMAIN n.m
             subs == {g \in [I -> UNION {Reorderings(n.m[i].d) : i \in I}] :
                        \A i \in I : g[i] \in Reorderings(n.m[i].d)}
             perms == {f \in [I -> I] :
                        /\ \A i \in I, j \in I : f[i] = f[j] => i = j
                        /\ n.t = "arr" => \A i \in I : f[i] = i}
         IN {[n EXCEPT !.m = [i \in I |-> Member(n.m[f[i]].k, g[f[i]])]] :
                f \in perms, g \in subs}

C15_SizeLimit ==
    dec.pc \in {"returned", "done"}
    => /\ (dec.size_limit > 0 /\ dec.msg.kind = "zlib" /\ dec.msg.have > dec.size_limit)
            => dec.res.err = "Size limit exceeded"
       /\ dec.res.err # "none" => dec.res.out = NoNode
       /\ dec.size_limit = 0 => dec.res.err # "Size limit exceeded"

\* C15 witness: a well-formed envelope longer than the limit was refused for its size.
C15_Witness ==
    /\ dec.pc = "returned"
    /\ dec.size_limit > 0 /\ dec.msg = compress(dec.msg.text)
    /\ Size(dec.msg.text) > dec.size_limit
    /\ dec.msg.text.t = "obj"
    /\ \E i \in DOMAIN dec.msg.text.m : dec.msg.text.m[i].k = "$schemaRef"
    /\ dec.res.err = "Size limit exceeded"

\* C16 -- Schema filtering.  A payload that decompresses (completely, within the limit)
\* to a JSON document that is not an object, or is an object without the key $schemaRef
\* at its top level, fails with "Missing $schemaRef"; whatever is returned came from an
\* object that has the key.
C16_SchemaFilter ==
    dec.pc \in {"returned", "done"}
    => /\ (/\ dec.msg = compress(dec.msg.text)
           /\ ~(dec.size_limit > 0 /\ Size(dec.msg.text) > dec.size_limit)
           /\ dec.msg.text.t \in {"scalar", "arr", "obj"}
           /\ \/ dec.msg.text.t # "obj"
              \/ \A i \in DOMAIN dec.msg.text.m : dec.msg.text.m[i].k # "$schemaRef")
            => dec.res = [err |-> "Missing $schemaRef", out |-> NoNode]
       /\ dec.res.err = "none"
            => /\ dec.msg.text.t = "obj"
               /\ \E i \in DOMAIN dec.msg.text.m : dec.msg.text.m[i].k = "$schemaRef"

\* C16 witness: an object that has $schemaRef only inside a nested object was refused.
C16_Witness ==
    /\ dec.pc = "returned"
    /\ dec.msg.text.t = "obj"
    /\ \E i \in DOMAIN dec.msg.text.m :
        LET d == dec.msg.text.m[i].d IN
        d.t = "obj" /\ \E j \in DOMAIN d.m : d.m[j].k = "$schemaRef"
    /\ dec.res.err = "Missing $schemaRef"

\* Seen under the size limit only: the canonical text is longer than the text received
\* (a short spelling was normalised), so the second round is refused for its size.
RoundTripOverLimit ==
    dec.pc = "done" /\ dec.first.err = "none" /\ dec.res.err = "Size limit exceeded"

\* C21 -- Post-upgrade capacity rejection.  A handler that starts while the Connection
\* Set holds connection_limit > 0 or more connections awaits close(1013) and returns;
\* neither step changes the Connection Set, the timer, the tasks or the iterator, and
\* the connection never becomes a member.
C21_PostUpgradeRejection ==
    [][\A c \in Conns :
        /\ (HandlerStart(c) /\ options.connection_limit > 0
                /\ Cardinality(_ws_conns) >= options.connection_limit)
            => /\ cst'[c] = "rejecting"
               /\ _ws_conns' = _ws_conns
               /\ UNCHANGED relayVars
        /\ HandlerRejected(c)
            => /\ cst[c] = "rejecting" /\ cst'[c] = "rejected"
               /\ _ws_conns' = _ws_conns
               /\ UNCHANGED relayVars
        /\ cst[c] \in {"rejecting", "rejected"}
            => /\ c \notin _ws_conns'
               /\ cst'[c] \in {"rejecting", "rejected"}
               /\ cst[c] = "rejected" => cst'[c] = "rejected"
      ]_vars

\* C21 witness: with room for one client, the second connection was turned away with
\* 1013 and its handler has returned after the first client left: the teardown armed by
\* the first client's exit is still pending and the relay still runs.
C21_Witness ==
    /\ options.connection_limit = 1 /\ OnDemand
    /\ cst[1] = "gone" /\ cst[2] = "rejected"
    /\ _ws_conns = {}
    /\ TimerArmed /\ SubscriptionHeld /\ iterCalls = 1

\* C22 -- Inline back-pressure.  With client_buffer_limit > 0 and client_check_interval
\* <= 0 a broadcast schedules a close (1008) for every OPEN member whose write-buffer
\* size is at or above the limit and enqueues nothing to it, and enqueues the envelope
\* to every other OPEN member (whose send does not raise); with client_check_interval
\* > 0 a broadcast schedules no close; with client_buffer_limit = 0 no close (1008) is
\* ever scheduled.
C22_InlineBackPressure ==
    [][/\ \A t \in Tasks, bufs \in Readings, errs \in SUBSET Conns :
            DecodeDone(t, bufs, errs)
            => \A c \in Conns :
                LET member == c \in _ws_conns /\ cst[c] = "open"
                    enqueued == sent'[c] = Append(sent[c], tasks[t].cur.seq)
                IN IF options.client_buffer_limit > 0 /\ options.client_check_interval <= 0
                   THEN IF member /\ bufs[c] >= options.client_buffer_limit
                        THEN c \in _background_tasks' /\ sent'[c] = sent[c]
                        ELSE /\ c \in _background_tasks' <=> c \in _background_tasks
                             /\ (member /\ c \notin errs) => enqueued
                   ELSE /\ _background_tasks' = _background_tasks
                        /\ (member /\ c \notin errs) => enqueued
       /\ options.client_buffer_limit = 0
            => _background_tasks = {} /\ _background_tasks' = {}
      ]_vars

\* C22 witness: inline checking; after the first broadcast one OPEN member has a close
\* scheduled and holds nothing, the other OPEN member holds the envelope.
C22_Witness ==
    /\ options.client_buffer_limit > 0 /\ options.client_check_interval = 0
    /\ upSeq = 1 /\ _relay_task # None /\ tasks[_relay_task].pc = "sleep"
    /\ \E c \in _ws_conns, d \in _ws_conns :
        /\ cst[c] = "open" /\ c \in _background_tasks /\ sent[c] = <<>>
        /\ cst[d] = "open" /\ d \notin _background_tasks /\ sent[d] = <<1>>

\* C23 -- Monitor resilience.  An exception raised during a sweep of the Buffer Monitor
\* leaves the stop future and the relay task as they are, and the monitor task goes on
\* (it is not finished by the exception).
C23_MonitorResilience ==
    [][\A t \in Tasks, bufs \in Readings, c \in Conns, done \in SUBSET Conns :
            MonitorRaise(t, bufs, c, done)
            => /\ stop' = stop
               /\ _relay_task' = _relay_task /\ tasks' = tasks /\ _iter' = _iter
               /\ mons'[t] = "alive"
      ]_vars

\* C24 -- Send-error isolation.  When the send to some client raises during a broadcast,
\* every other OPEN member (not turned away by the inline buffer check) is enqueued the
\* envelope, no close is scheduled for the failing client and its connection state is
\* unchanged, the relay task goes on to its sleep(0) and the stop future is untouched.
C24_SendErrorIsolation ==
    [][\A t \in Tasks, bufs \in Readings, errs \in SUBSET Conns :
            (DecodeDone(t, bufs, errs) /\ errs # {})
            => /\ \A c \in Conns \ errs :
                    (c \in _ws_conns /\ cst[c] = "open" /\ ~EvictedInline(c, bufs))
                    => sent'[c] = Append(sent[c], tasks[t].cur.seq)
               /\ \A c \in errs :
                    /\ cst'[c] = cst[c]
                    /\ c \in _background_tasks' <=> c \in _background_tasks
               /\ tasks'[t].pc = "sleep" /\ ~tasks'[t].cancel
               /\ stop' = stop
               /\ _relay_task' = _relay_task /\ _iter' = _iter
      ]_vars

\* C24 witness: no buffer limit; two members, both OPEN, both hold the first envelope
\* and only one holds the second: the send of the second envelope to the other raised.
C24_Witness ==
    /\ options.client_buffer_limit = 0
    /\ upSeq = 2 /\ stop = "pending"
    /\ \E c \in _ws_conns, d \in _ws_conns :
        /\ cst[c] = "open" /\ sent[c] = <<1>>
        /\ cst[d] = "open" /\ sent[d] = <<1, 2>>

\* C25 -- Transport errors are always fatal to the iterator.  Whenever the iterator is
\* receiving, a transport error can strike, and whatever ignore_decode_errors says it
\* ends the iteration in that step (socket closed, nothing received or enqueued); a
\* task whose iteration has ended takes no further step that receives, decodes or
\* enqueues.
C25_TransportErrorFatal ==
    \A t \in Tasks :
        /\ (tasks[t].pc = "recv" /\ ~tasks[t].cancel)
            => /\ ENABLED RecvError(t)
               /\ ~ENABLED (/\ RecvError(t)
                            /\ ~(/\ tasks'[t].pc = "done" /\ tasks'[t].sock = "closed"
                                 /\ upSeq' = upSeq /\ sent' = sent))
        /\ tasks[t].pc = "done"
            => ~ENABLED (\/ \E ok \in BOOLEAN : Recv(t, ok)
                         \/ \E bufs \in Readings, errs \in SUBSET Conns :
                                DecodeDone(t, bufs, errs)
                         \/ DecodeFail(t)
                         \/ Resume(t))

\* C25 witness: with ignore_decode_errors set, the relay task delivered the first
\* envelope to its client and then its iteration ended: the task is finished, its
\* socket closed and the stop future carries the task's result.
C25_Witness ==
    /\ options.ignore_decode_errors
    /\ upSeq = 1 /\ iterCalls = 1 /\ _relay_task = 1
    /\ tasks[1].pc = "done" /\ tasks[1].sock = "closed"
    /\ stop = "Iterator EOF" /\ servePc = "waiting"
    /\ cst[1] = "open" /\ sent[1] = <<1>>

\* Some task of the relay is recorded and has not finished.
RelayUnfinished ==
    \/ (_relay_task # None /\ tasks[_relay_task].pc # "done")
    \/ (_monitor_task # None /\ mons[_monitor_task] # "done")

\* C26 -- Duplicate starts and stops are no-ops.  While a recorded relay task or monitor
\* task is unfinished, _relay_start changes nothing, and the handler step that adds a
\* client leaves iterator, tasks and call count as they are (it can only cancel the
\* timer); while no relay task is recorded, _relay_stop changes nothing, and serve()'s
\* stop step passes through it.
C26_DuplicateNoOps ==
    /\ [](/\ RelayUnfinished => _relay_start(Relay) = Relay
          /\ _relay_task = None => _relay_stop(Relay) = Relay)
    /\ [][/\ \A c \in Conns :
                (HandlerStart(c) /\ RelayUnfinished)
                => /\ iterCalls' = iterCalls /\ _iter' = _iter
                   /\ _relay_task' = _relay_task /\ _monitor_task' = _monitor_task
                   /\ tasks' = tasks /\ mons' = mons
                   /\ timers' \subseteq timers
          /\ (ServeStop /\ _relay_task = None)
                => /\ UNCHANGED relayVars
                   /\ servePc' = "closing"
         ]_vars

\* C26 witness: the relay task has finished while the monitor task it was started with
\* is still running; a client is a member (room for one only, the first has gone) and
\* iter_factory has been called once.
C26_Witness ==
    /\ OnDemand /\ MonitorConfigured /\ options.connection_limit = 1
    /\ servePc = "waiting"
    /\ iterCalls = 1 /\ _relay_task = 1 /\ _monitor_task = 1 /\ _iter = 1
    /\ tasks[1].pc = "done" /\ mons[1] = "alive"
    /\ cst[1] = "gone" /\ cst[2] = "open" /\ _ws_conns = {2}
    /\ timers = {}

\* C27 -- Connection Set membership.  The members are exactly the connections whose
\* handler has added them and has not finished: no member is a connection that was
\* never added, was turned away, or whose handler has ended (by close, by an error of
\* wait_closed, or by cancellation).
C27_Membership ==
    \A c \in Conns : c \in _ws_conns <=> cst[c] \in {"open", "closed"}

\* C27 witness: during shutdown one handler has ended and its connection is no member
\* any more, while the other connection, still OPEN, is.
C27_Witness ==
    /\ servePc = "closing"
    /\ \E c \in Conns, d \in Conns :
        /\ cst[c] = "gone" /\ c \notin _ws_conns
        /\ cst[d] = "open" /\ d \in _ws_conns

\* C28 -- No delivery outside RUNNING.  Only the recorded relay task, not cancelled,
\* ever broadcasts; a cancelled task's only step is its end, which enqueues nothing
\* (whatever it had received or was decoding is dropped); while no relay task is
\* recorded no envelope is enqueued to anyone.
C28_NoDeliveryOutsideRunning ==
    [][/\ \A t \in Tasks, bufs \in Readings, errs \in SUBSET Conns :
            DecodeDone(t, bufs, errs)
            => /\ _relay_task = t
               /\ ~tasks[t].cancel
       /\ \A t \in Tasks :
            tasks[t].cancel
            => /\ tasks'[t].pc \in {tasks[t].pc, "done"}
               /\ tasks'[t].pc # tasks[t].pc => sent' = sent
       /\ _relay_task = None
            => \A c \in Conns : sent'[c] = sent[c] \/ sent'[c] = <<>>
      ]_vars

\* C28 witness: a relay task was cancelled while an envelope it had received was being
\* decoded; another task is recorded by now and a client is connected and OPEN.
C28_Witness ==
    \E t \in Tasks :
        /\ tasks[t].cancel /\ tasks[t].pc = "decode" /\ tasks[t].cur.ok
        /\ _relay_task \notin {None, t}
        /\ \E c \in _ws_conns : cst[c] = "open"

\* C30 -- Capacity cap in the monolithic server.  With connection_limit > 0 the
\* connection set of EDDNWebsocketServer never holds more than connection_limit
\* connections, whether ping_path is set or not.
C30_MonoCapacityCap ==
    (options.connection_limit > 0 /\ options.ping_path \in {"", "/ping"})
        => Cardinality(_ws_conns) <= options.connection_limit

\* C29 -- Cooperative yield.  A run of the relay task performs at most one broadcast
\* (it takes at most one payload and enqueues at most one envelope per client) and ends
\* suspended at sleep(0), from where its next run enqueues nothing; so, however long the
\* upstream burst, a client waiting to be admitted is admitted or turned away, a closed
\* connection is removed, an armed timer fires or is cancelled, and a resolved stop
\* future is acted on by serve().
C29_CooperativeYield ==
    /\ [][/\ \A t \in Tasks, bufs \in Readings, errs \in SUBSET Conns :
                DecodeDone(t, bufs, errs) => tasks'[t].pc = "sleep"
          /\ upSeq' <= upSeq + 1
          /\ \A c \in Conns : Len(sent'[c]) <= Len(sent[c]) + 1
          /\ \A t \in Tasks :
                (tasks[t].pc = "sleep" /\ tasks'[t].pc # "sleep")
                => /\ \A c \in Conns : Len(sent'[c]) <= Len(sent[c])
                   /\ upSeq' = upSeq
         ]_vars
    /\ \A c \in Conns : (cst[c] = "upgrading") ~> (cst[c] # "upgrading")
    /\ \A c \in Conns : (cst[c] = "closed") ~> (cst[c] = "gone")
    /\ \A h \in 1..(NConn + 1) : (h \in timers) ~> (h \notin timers)
    /\ (stop \notin {"none", "pending"}) ~> (servePc # "waiting")

\* C29 witness: in the middle of a burst (more than MaxMsgs payloads have arrived: a
\* client holds the last arrival number twice) the relay task is suspended at sleep(0)
\* while a new client waits for its handler to run.
C29_Witness ==
    /\ upSeq = MaxMsgs
    /\ _relay_task # None /\ tasks[_relay_task].pc = "sleep"
    /\ \E c \in Conns : cst[c] = "upgrading"
    /\ \E d \in _ws_conns : cst[d] = "open" /\ sent[d] = <<MaxMsgs, MaxMsgs>>

\* C31 -- Teardown timer invariant.  At most one teardown timer is armed, and it is the
\* one recorded in _relay_close_handler; a timer is armed only while the connection set
\* is empty and a relay task is recorded; the timer callback that runs _relay_stop is
\* the recorded handle's, and a handle that stops being the recorded one (cancelled,
\* replaced or fired) is not armed afterwards, so it never runs _relay_stop.
C31_TeardownTimer ==
    /\ [](/\ Cardinality(timers) <= 1
          /\ timers \subseteq {_relay_close_handler}
          /\ timers # {} => (_ws_conns = {} /\ _relay_task # None))
    /\ [][\A h \in 1..(NConn + 1) :
            /\ TimerFire(h)
                => (h = _relay_close_handler /\ _ws_conns = {} /\ _relay_task # None)
            /\ (h \in timers /\ _relay_close_handler' # h) => h \notin timers'
         ]_vars

\* C31 witness: with room for one client, the first client left (timer armed), the
\* second was admitted (timer cancelled: the first relay task is still the recorded one
\* and was never cancelled) and left in turn, and a timer is armed again.
C31_Witness ==
    /\ OnDemand /\ options.connection_limit = 1
    /\ cst[1] = "gone" /\ cst[2] = "gone" /\ _ws_conns = {}
    /\ iterCalls = 1 /\ _relay_task = 1 /\ ~tasks[1].cancel
    /\ TimerArmed /\ Cardinality(timers) = 1

\* C32 -- The stop future is resolved at most once and resolving it never raises.  Once
\* resolved the future keeps its result; no callback of the loop raises; and a signal
\* handler (for a signal from outside or for the SIGHUP the relay task sent to its own
\* process) runs set_result only on a pending future.
C32_StopResolvedOnce ==
    /\ [](callback_exc = "none")
    /\ [][/\ stop \notin {"none", "pending"} => stop' = stop
          /\ \A sig \in {"SIGTERM", "SIGHUP"} : MonoSignal(sig) => stop = "pending"
          /\ MonoSelfSignal => stop = "pending"
         ]_vars

====
